---- MODULE Spec2Model ----
(***************************************************************************)
(* redisgo (src/main.go): an in-memory key-value store with TTLs, an       *)
(* append-only JSON-lines log replayed at startup, a periodic expiry       *)
(* worker and a line-oriented TCP protocol.                                *)
(*                                                                         *)
(* Byte strings are modelled as a unit (a sequence of bytes) repeated n    *)
(* times, so that a value longer than the scanner's token limit has a      *)
(* finite representation.  Time is counted in half milliseconds, so that   *)
(* a TTL shorter than one millisecond exists.                              *)
(***************************************************************************)
EXTENDS Integers, Sequences, FiniteSets, TLC

(* ------------------------------ bounds --------------------------------- *)
\* the clock runs from 1 to MaxTime
MaxTime == 3
\* the log file holds at most MaxLog chunks (one chunk per append attempt)
MaxLog == 2
\* number of bytes of a long value, in units of 1024 bytes
BigKiB == 70

(* --------------------------- program constants ------------------------- *)
\* time.Millisecond, in model time units (half milliseconds)
Millisecond == 2
\* bufio.MaxScanTokenSize, the longest line bufio.Scanner returns
MaxScanTokenSize == 65536

(* ------------------------------ strings -------------------------------- *)
Str(u, n) == [u |-> u, n |-> n]
StrLen(s) == Len(s.u) * s.n

sA   == Str(<<97>>, 1)
sB   == Str(<<98>>, 1)
sK1  == Str(<<107>>, 1)
sK2  == Str(<<106>>, 1)
\* a byte that is never part of valid UTF-8
sFF  == Str(<<255>>, 1)
\* U+FFFD, the replacement character, in UTF-8
sRep == Str(<<239, 191, 189>>, 1)
\* a value longer than the scanner's token limit
sBig == Str(<<97>>, BigKiB * 1024)
\* what fmt.Sprintf("%v", nil) prints
sNil == Str(<<60, 110, 105, 108, 62>>, 1)

IsCont(b) == b >= 128 /\ b <= 191
\* a three-byte UTF-8 sequence starts at position i of u (lead bytes E1..EC, EE, EF)
IsSeq3(u, i) ==
    /\ i + 2 <= Len(u)
    /\ u[i] >= 225 /\ u[i] <= 239 /\ u[i] # 237
    /\ IsCont(u[i + 1]) /\ IsCont(u[i + 2])

\* encoding/json writes a string: every byte that is not part of a valid
\* UTF-8 sequence is written as an escape of six bytes that reads back as U+FFFD
RECURSIVE CoerceFrom(_, _)
CoerceFrom(u, i) ==
    IF i > Len(u) THEN <<>>
    ELSE IF u[i] < 128 THEN <<u[i]>> \o CoerceFrom(u, i + 1)
    ELSE IF IsSeq3(u, i) THEN <<u[i], u[i + 1], u[i + 2]>> \o CoerceFrom(u, i + 3)
    ELSE <<239, 191, 189>> \o CoerceFrom(u, i + 1)

JsonString(s) == Str(CoerceFrom(s.u, 1), s.n)

ValidUTF8(s) == CoerceFrom(s.u, 1) = s.u

\* bytes of the JSON text of string s: two quotes, one byte per ASCII byte,
\* three per valid three-byte sequence, six per escaped invalid byte
RECURSIVE EncLenFrom(_, _)
EncLenFrom(u, i) ==
    IF i > Len(u) THEN 0
    ELSE IF u[i] < 128 THEN 1 + EncLenFrom(u, i + 1)
    ELSE IF IsSeq3(u, i) THEN 3 + EncLenFrom(u, i + 3)
    ELSE 6 + EncLenFrom(u, i + 1)

JsonStringLen(s) == 2 + EncLenFrom(s.u, 1) * s.n

RECURSIVE Digits(_)
Digits(n) == IF n < 10 THEN 1 ELSE 1 + Digits(n \div 10)

(* ------------------------------ the store ------------------------------ *)
\* type entry: ExpiresAt = 0 is the zero time.Time, "no expiry"
Entry(v, e) == [Value |-> v, ExpiresAt |-> e]
EmptyMap == [x \in {} |-> Entry(sA, 0)]
MapSetBad(d, k, e) ==
    [x \in (DOMAIN d) \cup {k} |->
        IF x # k THEN d[x]
        ELSE IF k \in DOMAIN d /\ e.ExpiresAt = 0 THEN [e EXCEPT !.ExpiresAt = d[k].ExpiresAt]
        ELSE e]
MapSet(d, k, e) == [x \in (DOMAIN d) \cup {k} |-> IF x = k THEN e ELSE d[x]]
MapDel(d, k) == [x \in (DOMAIN d) \ {k} |-> d[x]]

\* ent.ExpiresAt of DB.Set and loadAOF: now + ttl when ttl > 0, else zero
ExpiryOf(t, ttl) == IF ttl > 0 THEN t + ttl ELSE 0

\* time.Now().After(e.ExpiresAt) on an entry with a non-zero ExpiresAt
ExpiredBad(e, t) == e.ExpiresAt # 0 /\ t > e.ExpiresAt + 1
Expired(e, t) == e.ExpiresAt # 0 /\ t > e.ExpiresAt

\* DB.Get: the value and whether the key was found
Get(d, k, t) ==
    IF k \notin DOMAIN d \/ Expired(d[k], t) THEN [ok |-> FALSE, v |-> sNil]
    ELSE [ok |-> TRUE, v |-> d[k].Value]

(* ----------------------------- the log file ---------------------------- *)
\* a log record as json.Marshal writes it (keys in sorted order: cmd, key,
\* ttl_ms, value); ttl_ms = -1 stands for an absent field
Rec(cmd, key, hasValue, value, ttl_ms) ==
    [cmd |-> cmd, key |-> key, hasValue |-> hasValue, value |-> value, ttl_ms |-> ttl_ms]

\* bytes of the JSON object of a record, without the newline
JsonLen(r) ==
    7 + 5 + 7 + JsonStringLen(r.key)
    + (IF r.ttl_ms >= 0 THEN 10 + Digits(r.ttl_ms) ELSE 0)
    + (IF r.hasValue THEN 9 + JsonStringLen(r.value) ELSE 0)
    + 1

\* the first `bytes` bytes of the JSON text of rec
Chunk(r, bytes) == [rec |-> r, bytes |-> bytes]
Whole(c) == c.bytes = JsonLen(c.rec)

\* the file is a sequence of lines; only the last one can lack its newline
Line(chunks, nl) == [chunks |-> chunks, nl |-> nl]

RECURSIVE SumBytes(_, _)
SumBytes(chunks, i) == IF i > Len(chunks) THEN 0 ELSE chunks[i].bytes + SumBytes(chunks, i + 1)
LineLen(l) == SumBytes(l.chunks, 1)

RECURSIVE NChunksFrom(_, _)
NChunksFrom(f, i) == IF i > Len(f) THEN 0 ELSE Len(f[i].chunks) + NChunksFrom(f, i + 1)
NChunks(f) == NChunksFrom(f, 1)

\* os.File.Write on a file opened with O_APPEND: the bytes go to the end
\* of the file, that is onto the last line when it has no newline yet
FileWriteBad(f, c, nl) == IF c.bytes = 0 /\ ~nl THEN f ELSE <<Line(<<c>>, nl)>>
FileWrite(f, c, nl) ==
    IF c.bytes = 0 /\ ~nl THEN f
    ELSE IF f = <<>> \/ f[Len(f)].nl THEN f \o <<Line(<<c>>, nl)>>
    ELSE [f EXCEPT ![Len(f)] = Line(@.chunks \o <<c>>, nl)]

\* rec["ttl_ms"] = int64(ttl / time.Millisecond), only when ttl > 0
TtlMs(ttl) == IF ttl > 0 THEN ttl \div Millisecond ELSE -1

\* DB.appendAOF.  out is what the file system does: "ok", "werr" (Write
\* fails after `cut` bytes, at most all bytes but the newline) or "serr"
\* (Write succeeds, Sync fails).  hasValue is value != nil.
AppendAOF(f, cmd, key, hasValue, value, ttl, out, cut) ==
    LET r == Rec(cmd, JsonString(key), hasValue,
                 IF hasValue THEN JsonString(value) ELSE sNil, TtlMs(ttl))
    IN  IF out = "werr"
        THEN [file |-> FileWrite(f, Chunk(r, IF cut < JsonLen(r) THEN cut ELSE JsonLen(r)), FALSE),
              err |-> TRUE]
        ELSE [file |-> FileWrite(f, Chunk(r, JsonLen(r)), TRUE), err |-> out = "serr"]


(* ------------------------------- replay -------------------------------- *)
\* strings.ToUpper on the command names that occur
ToUpper(c) == CASE c = "set" -> "SET" [] c = "del" -> "DEL" [] OTHER -> c

\* json.Unmarshal(line, &rec) succeeds
Parses(l) == Len(l.chunks) = 1 /\ Whole(l.chunks[1])

\* the body of loadAOF's loop for one parsed record
ApplyRec(d, r, t) ==
    LET cmd == ToUpper(r.cmd)
        ttl == IF r.ttl_ms > 0 THEN r.ttl_ms * Millisecond ELSE 0
    IN  CASE cmd = "SET" ->
               MapSet(d, r.key, Entry(IF r.hasValue THEN r.value ELSE sNil, ExpiryOf(t, ttl)))
          [] cmd = "DEL" -> MapDel(d, r.key)
          [] OTHER -> d

\* one pass of loadAOF's loop: a line that does not parse is passed over
ApplyLine(d, l, t) == IF Parses(l) THEN ApplyRec(d, l.chunks[1].rec, t) ELSE d

\* scanner.Scan() returns a token for line l
ScanOK(l) == LineLen(l) < MaxScanTokenSize

\* DB.loadAOF: the lines in file order; the loop ends at the first line the
\* scanner cannot return (scanner.Err() is not looked at)
RECURSIVE LoadFrom(_, _, _, _)
LoadFrom(f, i, d, t) ==
    IF i > Len(f) THEN d
    ELSE IF ~ScanOK(f[i]) THEN d
    ELSE LoadFrom(f, i + 1, ApplyLine(d, f[i], t), t)

LoadAOF(f, t) == LoadFrom(f, 1, EmptyMap, t)

(* --------------------------- store operations -------------------------- *)
\* DB.Set: the map is written first, then the record is appended; the
\* result of the append is the result of Set
SetBad(d, f, t, key, value, ttl, out, cut) ==
    LET a == AppendAOF(f, "SET", key, TRUE, value, ttl, out, cut)
    IN  [data |-> IF a.err THEN d ELSE MapSet(d, key, Entry(value, ExpiryOf(t, ttl))),
         file |-> a.file, err |-> a.err]
Set(d, f, t, key, value, ttl, out, cut) ==
    LET a == AppendAOF(f, "SET", key, TRUE, value, ttl, out, cut)
    IN  [data |-> MapSet(d, key, Entry(value, ExpiryOf(t, ttl))),
         file |-> a.file, err |-> a.err]

\* DB.Del: each key found in the map is deleted, counted and logged; the
\* result of appendAOF is discarded
RECURSIVE DelFromBad(_, _, _, _, _, _, _)
DelFromBad(d, f, keys, i, n, out, cut) ==
    IF i > Len(keys) THEN [data |-> d, file |-> f, deleted |-> n]
    ELSE IF keys[i] \in DOMAIN d
         THEN DelFromBad(MapDel(d, keys[i]),
                         AppendAOF(f, "DEL", keys[i], FALSE, sNil, 0, out, cut).file,
                         keys, i + 1, n + 1, out, cut)
         ELSE DelFromBad(d, f, keys, i + 1, n + 1, out, cut)
RECURSIVE DelFrom(_, _, _, _, _, _, _)
DelFrom(d, f, keys, i, n, out, cut) ==
    IF i > Len(keys) THEN [data |-> d, file |-> f, deleted |-> n]
    ELSE IF keys[i] \in DOMAIN d
         THEN DelFrom(MapDel(d, keys[i]),
                      AppendAOF(f, "DEL", keys[i], FALSE, sNil, 0, out, cut).file,
                      keys, i + 1, n + 1, out, cut)
         ELSE DelFrom(d, f, keys, i + 1, n, out, cut)

Del(d, f, keys, out, cut) == DelFrom(d, f, keys, 1, 0, out, cut)

\* the loop body of DB.expiryWorker, with `t` the time.Now() of the tick
SweepBad(d, t) == [k \in {x \in DOMAIN d : d[x].ExpiresAt = 0} |-> d[k]]
Sweep(d, t) == [k \in {x \in DOMAIN d : ~Expired(d[x], t)} |-> d[k]]

\* e.ExpiresAt.UnixNano(): the zero time.Time is January 1 of year 1, whose
\* nanosecond count does not fit 64 bits and wraps to -6795364578871345152;
\* a negative number of model time units stands for it
ZeroUnixNano == -6795
UnixNano(e) == IF e = 0 THEN ZeroUnixNano ELSE e

\* DB.SaveSnapshot: the file written by a successful os.WriteFile
Snapshot(d) ==
    [k \in DOMAIN d |-> [value |-> JsonString(d[k].Value), expiresAt |-> UnixNano(d[k].ExpiresAt)]]

\* the snapshot file: whole is FALSE when os.WriteFile failed, which leaves
\* the file truncated or partly written
SnapFile(whole, m) == [whole |-> whole, m |-> m]

(* ---------------------------- the protocol ----------------------------- *)
\* one line read by handleConn, after strings.TrimSpace and splitArgs:
\* name = args[0] ("" for a line with no token), keys and val the tokens
\* after it, px the result of the PX argument
NoPx == [given |-> FALSE, ok |-> FALSE, d |-> 0]
BadPx == [given |-> TRUE, ok |-> FALSE, d |-> 0]
Px(d) == [given |-> TRUE, ok |-> TRUE, d |-> d]
Cmd(name, keys, val, px) == [name |-> name, keys |-> keys, val |-> val, px |-> px]

\* replies: kind is the first byte(s) of the reply line
Reply(kind, n, v) == [kind |-> kind, n |-> n, v |-> v]
ROk == Reply("+OK", 0, sNil)
RPong == Reply("+PONG", 0, sNil)
RErr == Reply("-ERR", 0, sNil)
RNil == Reply("$-1", 0, sNil)
RInt(n) == Reply(":", n, sNil)
RBulk(v) == Reply("$", StrLen(v), v)
IsError(r) == r.kind = "-ERR"

Res(d, f, s, rep) == [data |-> d, file |-> f, snap |-> s, rep |-> rep]

\* ttl of a SET: ms, the parsed duration, when PX is given and parses
TtlOf(px) == IF px.given /\ px.ok THEN px.d ELSE 0

\* handleConn's switch on args[0]: the new map, log and snapshot file, and
\* the replies written to the connection
HandleCmd(d, f, s, t, c, out, cut) ==
    CASE c.name = "PING" -> Res(d, f, s, <<RPong>>)
      [] c.name = "SET" ->
            IF Len(c.keys) < 1 THEN Res(d, f, s, <<RErr>>)
            ELSE LET r == Set(d, f, t, c.keys[1], c.val, TtlOf(c.px), out, cut)
                 IN  Res(r.data, r.file, s, IF r.err THEN <<RErr>> ELSE <<ROk>>)
      [] c.name = "GET" ->
            IF Len(c.keys) # 1 THEN Res(d, f, s, <<RErr>>)
            ELSE LET g == Get(d, c.keys[1], t)
                 IN  Res(d, f, s, IF g.ok THEN <<RBulk(g.v)>> ELSE <<RNil>>)
      [] c.name = "DEL" ->
            IF Len(c.keys) < 1 THEN Res(d, f, s, <<RErr>>)
            ELSE LET r == Del(d, f, c.keys, out, cut)
                 IN  Res(r.data, r.file, s, <<RInt(r.deleted)>>)
      [] c.name = "SAVE" ->
            IF out = "ok" THEN Res(d, f, SnapFile(TRUE, Snapshot(d)), <<ROk>>)
            ELSE Res(d, f, SnapFile(FALSE, EmptyMap), <<RErr>>)
      [] OTHER -> Res(d, f, s, <<RErr>>)

\* one iteration of handleConn's loop after a line was read: a line that is
\* empty after strings.TrimSpace is passed over
HandleLineBad(d, f, s, t, c, out, cut) == HandleCmd(d, f, s, t, c, out, cut)
HandleLine(d, f, s, t, c, out, cut) ==
    IF c.name = "" THEN Res(d, f, s, <<>>) ELSE HandleCmd(d, f, s, t, c, out, cut)

(* ------------------------------ the state ------------------------------ *)
VARIABLES
    data,    \* db.data, the map of the running process
    aof,     \* the content of the append-only file
    snap,    \* the content of the snapshot file
    now,     \* the clock, time.Now()
    up,      \* the process is running
    open,    \* open[c]: connection c is being served by a handleConn
    last,    \* the step just taken: what was read and what was replied
    setAt,   \* history: for each key, time and ttl of the last DB.Set of it
    gone,    \* history: keys removed by a DB.Del and not set since
    acked,   \* history: for each key, the value of the last SET answered +OK
    clean,   \* history: every key and value was valid UTF-8, every append succeeded
    pos,     \* loadAOF: the line the scanner is at
    pc,      \* pc[t]: where task t is in its code
    cur,     \* cur[t]: the command task t is serving, and its local variables
    mu,      \* db.mu: the writer that holds it (w), the readers that hold it (r), the
             \* writer that has announced itself and waits for the readers to leave (p)
    aofMu,   \* db.aofMu: the task that holds it
    acc,     \* acc[t]: task t is in the middle of reading ("r") or writing ("w") db.data
    applied, \* history: the records of the mutations made to db.data, in the order made
    tmp      \* tmp[t]: the map SaveSnapshot of task t has built for its file

\* the tasks: main (NewDB and its replay), two connection handlers, the expiry worker
Handlers == {"c1", "c2"}
Tasks == {"main", "reaper"} \cup Handlers

steps == <<pos, pc, cur, mu, aofMu, acc, applied, tmp>>
vars == <<data, aof, snap, now, up, open, last, setAt, gone, acked, clean, steps>>

(* ------------------------------ inputs --------------------------------- *)
Keys == {sK1, sK2}
Conns == {1}
Outs == {"ok", "werr", "serr"}
NoCmd == Cmd("", <<>>, sNil, NoPx)

\* lines clients send: the commands on keys
GetLines == {Cmd("GET", <<k>>, sNil, NoPx) : k \in Keys}
KeyLists == {<<k>> : k \in Keys} \cup {<<k, k>> : k \in Keys} \cup {<<sK1, sK2>>}
DelLines == {Cmd("DEL", ks, sNil, NoPx) : ks \in KeyLists}
SetLines(ks, vs, pxs) == {Cmd("SET", <<k>>, v, px) : k \in ks, v \in vs, px \in pxs}
\* a blank line, PING, an unknown command, SAVE, and commands with too few arguments
OtherLines ==
    {Cmd("", <<>>, sNil, NoPx), Cmd("PING", <<>>, sNil, NoPx), Cmd("FOO", <<>>, sNil, NoPx),
     Cmd("SAVE", <<>>, sNil, NoPx), Cmd("GET", <<>>, sNil, NoPx), Cmd("DEL", <<>>, sNil, NoPx),
     Cmd("SET", <<>>, sNil, NoPx), Cmd("GET", <<sK1, sK2>>, sNil, NoPx)}

\* appends a command can make
Appends(c) == IF c.name = "SET" /\ Len(c.keys) >= 1 THEN 1
              ELSE IF c.name = "DEL" THEN Len(c.keys) ELSE 0

\* the local variables of a task: the line it serves, DB.Del's loop index
\* and count, the result of DB.Get, the error of DB.Set, the expiry
\* worker's time.Now()
Locals(line, i, n, g, err, t) == [line |-> line, i |-> i, n |-> n, g |-> g, err |-> err, t |-> t]
NoLocals == Locals(NoCmd, 0, 0, [ok |-> FALSE, v |-> sNil], FALSE, 0)

NoSet == [t0 |-> 0, ttl |-> 0]
NoAck == [has |-> FALSE, v |-> sNil]
Step(op, conn, cmd, rep, out) ==
    [op |-> op, conn |-> conn, cmd |-> cmd, rep |-> rep, out |-> out]

(* ------------------------------ actions -------------------------------- *)
\* NewDB on an empty append-only file, no connection accepted yet
Init ==
    /\ data = EmptyMap
    /\ aof = <<>>
    /\ snap = SnapFile(TRUE, EmptyMap)
    /\ now = 1
    /\ up = TRUE
    /\ open = [c \in Conns |-> FALSE]
    /\ last = Step("INIT", 1, NoCmd, <<>>, "ok")
    /\ setAt = [k \in Keys |-> NoSet]
    /\ gone = {}
    /\ acked = [k \in Keys |-> NoAck]
    /\ clean = TRUE
    /\ pos = 0
    /\ pc = [t \in Tasks |-> "idle"]
    /\ cur = [t \in Tasks |-> NoLocals]
    /\ mu = [w |-> "none", r |-> {}, p |-> "none"]
    /\ aofMu = "none"
    /\ acc = [t \in Tasks |-> "none"]
    /\ applied = <<>>
    /\ tmp = [t \in Tasks |-> EmptyMap]

\* main's accept loop: go handleConn(conn, db)
Accept(c) ==
    /\ up /\ ~open[c]
    /\ open' = [open EXCEPT ![c] = TRUE]
    /\ last' = Step("ACCEPT", c, NoCmd, <<>>, "ok")
    /\ UNCHANGED <<data, aof, snap, now, up, setAt, gone, acked, clean>>
    /\ UNCHANGED steps

\* handleConn: r.ReadString fails (error, timeout, end of stream): return
ReadFail(c) ==
    /\ up /\ open[c]
    /\ open' = [open EXCEPT ![c] = FALSE]
    /\ last' = Step("READERR", c, NoCmd, <<>>, "ok")
    /\ UNCHANGED <<data, aof, snap, now, up, setAt, gone, acked, clean>>
    /\ UNCHANGED steps

\* the history variables after command c was served from map d
SetAtAfter(c, t) ==
    IF c.name = "SET" /\ Len(c.keys) >= 1
    THEN [setAt EXCEPT ![c.keys[1]] = [t0 |-> t, ttl |-> TtlOf(c.px)]]
    ELSE setAt
GoneAfter(c, d) ==
    IF c.name = "SET" /\ Len(c.keys) >= 1 THEN gone \ {c.keys[1]}
    ELSE IF c.name = "DEL"
    THEN gone \cup {k \in Keys : (\E i \in 1..Len(c.keys) : c.keys[i] = k)
                                 /\ Del(d, <<>>, <<k>>, "ok", 0).deleted > 0}
    ELSE gone
AckedAfter(c, rep) ==
    IF c.name = "SET" /\ Len(c.keys) >= 1
    THEN [acked EXCEPT ![c.keys[1]] =
             IF rep = <<ROk>> /\ TtlOf(c.px) <= 0 THEN [has |-> TRUE, v |-> c.val] ELSE NoAck]
    ELSE IF c.name = "DEL"
    THEN [k \in Keys |-> IF \E i \in 1..Len(c.keys) : c.keys[i] = k THEN NoAck ELSE acked[k]]
    ELSE acked

CleanAfter(c, f, out) ==
    /\ clean
    /\ f # aof => out = "ok"
    /\ (c.name = "SET" /\ Len(c.keys) >= 1) => (out = "ok" /\ ValidUTF8(c.val))
    /\ \A i \in 1..Len(c.keys) : ValidUTF8(c.keys[i])

\* handleConn: one line is read and served
Serve(c, line, out, cut) ==
    /\ up /\ open[c]
    /\ LET r == HandleLine(data, aof, snap, now, line, out, cut)
       IN  /\ NChunks(r.file) <= MaxLog
           /\ data' = r.data
           /\ aof' = r.file
           /\ snap' = r.snap
           /\ last' = Step("LINE", c, line, r.rep, out)
           /\ setAt' = SetAtAfter(line, now)
           /\ gone' = GoneAfter(line, data)
           /\ acked' = AckedAfter(line, r.rep)
           /\ clean' = CleanAfter(line, r.file, out)
    /\ UNCHANGED <<now, up, open>>
    /\ UNCHANGED steps

\* time passes
Tick ==
    /\ now < MaxTime
    /\ now' = now + 1
    /\ last' = Step("TICK", 1, NoCmd, <<>>, "ok")
    /\ UNCHANGED <<data, aof, snap, up, open, setAt, gone, acked, clean>>
    /\ UNCHANGED steps

\* DB.expiryWorker: one tick of the ticker
Reap ==
    /\ up
    /\ data' = Sweep(data, now)
    /\ last' = Step("REAP", 1, NoCmd, <<>>, "ok")
    /\ UNCHANGED <<aof, snap, now, up, open, setAt, gone, acked, clean>>
    /\ UNCHANGED steps

\* what the file system may do while a line is served
Fates(line, outs) == IF Appends(line) = 0 /\ line.name # "SAVE" THEN {"ok"} ELSE outs

\* NewDB on an empty append-only file, the connections accepted
InitServing ==
    /\ data = EmptyMap
    /\ aof = <<>>
    /\ snap = SnapFile(TRUE, EmptyMap)
    /\ now = 1
    /\ up = TRUE
    /\ open = [c \in Conns |-> TRUE]
    /\ last = Step("INIT", 1, NoCmd, <<>>, "ok")
    /\ setAt = [k \in Keys |-> NoSet]
    /\ gone = {}
    /\ acked = [k \in Keys |-> NoAck]
    /\ clean = TRUE
    /\ pos = 0
    /\ pc = [t \in Tasks |-> "idle"]
    /\ cur = [t \in Tasks |-> NoLocals]
    /\ mu = [w |-> "none", r |-> {}, p |-> "none"]
    /\ aofMu = "none"
    /\ acc = [t \in Tasks |-> "none"]
    /\ applied = <<>>
    /\ tmp = [t \in Tasks |-> EmptyMap]

(* ----------- Spec: the store and its log, appends that can fail -------- *)
StoreLines ==
    SetLines(Keys, {sA}, {NoPx}) \cup SetLines(Keys, {sB}, {Px(Millisecond)})
    \cup GetLines \cup {Cmd("DEL", ks, sNil, NoPx) : ks \in {<<sK1>>, <<sK2>>, <<sK1, sK2>>}}

\* a failing Write leaves the first byte of the record in the file
Next ==
    \/ \E c \in Conns, line \in StoreLines :
          \E out \in Fates(line, Outs) : Serve(c, line, out, IF out = "werr" THEN 1 ELSE 0)

Spec == InitServing /\ [][Next]_vars

(* ------------- SpecProto: the connection loop, every command ----------- *)
ProtoLines == OtherLines \cup SetLines({sK1}, {sA}, {NoPx, BadPx}) \cup GetLines \cup DelLines

NextProto ==
    \/ \E c \in Conns : Accept(c)
    \/ \E c \in Conns : ReadFail(c)
    \/ \E c \in Conns, line \in ProtoLines :
          \E out \in Fates(line, Outs) : Serve(c, line, out, 0)

SpecProto == Init /\ [][NextProto]_vars

(* ------------------ SpecTTL: expiry while time passes ------------------ *)
TTLLines ==
    SetLines(Keys, {sA}, {NoPx, Px(1), Px(Millisecond)}) \cup GetLines \cup DelLines

NextTTL ==
    \/ \E c \in Conns, line \in TTLLines : Serve(c, line, "ok", 0)
    \/ Tick
    \/ Reap

SpecTTL == InitServing /\ [][NextTTL]_vars

(* ------------- SpecCrash: the process dies and starts again ------------ *)
\* the process is killed: the map is lost, the file stays
Crash ==
    /\ up
    /\ up' = FALSE
    /\ data' = EmptyMap
    /\ open' = [c \in Conns |-> FALSE]
    /\ last' = Step("CRASH", 1, NoCmd, <<>>, "ok")
    /\ UNCHANGED <<aof, snap, now, setAt, gone, acked, clean>>
    /\ UNCHANGED steps

\* main: NewDB opens the file and replays it, then connections are accepted
Start ==
    /\ ~up
    /\ up' = TRUE
    /\ data' = LoadAOF(aof, now)
    /\ open' = [c \in Conns |-> TRUE]
    /\ last' = Step("START", 1, NoCmd, <<>>, "ok")
    /\ setAt' = [k \in Keys |-> NoSet]
    /\ gone' = {}
    /\ UNCHANGED <<aof, snap, now, acked, clean>>
    /\ UNCHANGED steps

\* more bytes than any record of the model has: a Write that fails with
\* only the newline missing
AllButNewline == 2 * BigKiB * 1024

CrashLines ==
    SetLines(Keys, {sA}, {NoPx}) \cup SetLines({sK1}, {sFF}, {NoPx})
    \cup SetLines({sK2}, {sBig}, {NoPx})
    \cup GetLines \cup {Cmd("DEL", <<k>>, sNil, NoPx) : k \in Keys}

NextCrash ==
    \/ \E c \in Conns, line \in CrashLines : Serve(c, line, "ok", 0)
    \/ \E c \in Conns, line \in CrashLines, cut \in {1, AllButNewline} :
          Appends(line) > 0 /\ Serve(c, line, "werr", cut)
    \/ Crash
    \/ Start

SpecCrash == InitServing /\ [][NextCrash]_vars


(* ---------------- SpecReplay: loadAOF on any log file ------------------ *)
WholeLine(r) == Line(<<Chunk(r, JsonLen(r))>>, TRUE)
\* the lines of the files replayed: SET and DEL records, a SET with a
\* ttl_ms, a SET in lower case, a SET without a value, an unknown command,
\* a line that is no JSON object, a SET record longer than the scanner's limit
ReplayLines ==
    {WholeLine(Rec("SET", sK1, TRUE, sA, -1)),
     WholeLine(Rec("SET", sK2, TRUE, sB, 1)),
     WholeLine(Rec("set", sK1, TRUE, sB, -1)),
     WholeLine(Rec("SET", sK2, FALSE, sNil, -1)),
     WholeLine(Rec("DEL", sK1, FALSE, sNil, -1)),
     WholeLine(Rec("NOP", sK1, FALSE, sNil, -1)),
     Line(<<Chunk(Rec("SET", sK1, TRUE, sA, -1), 1)>>, TRUE),
     WholeLine(Rec("SET", sK2, TRUE, sBig, -1))}

ReplayFiles == UNION {[1..n -> ReplayLines] : n \in 0..MaxLog}

\* NewDB has opened the file, loadAOF is about to read its first line
InitReplay ==
    /\ data = EmptyMap
    /\ aof \in ReplayFiles
    /\ snap = SnapFile(TRUE, EmptyMap)
    /\ now = 1
    /\ up = FALSE
    /\ open = [c \in Conns |-> FALSE]
    /\ last = Step("INIT", 1, NoCmd, <<>>, "ok")
    /\ setAt = [k \in Keys |-> NoSet]
    /\ gone = {}
    /\ acked = [k \in Keys |-> NoAck]
    /\ clean = TRUE
    /\ pos = 1
    /\ pc = [t \in Tasks |-> "idle"]
    /\ cur = [t \in Tasks |-> NoLocals]
    /\ mu = [w |-> "none", r |-> {}, p |-> "none"]
    /\ aofMu = "main"
    /\ acc = [t \in Tasks |-> "none"]
    /\ applied = <<>>
    /\ tmp = [t \in Tasks |-> EmptyMap]

\* loadAOF: scanner.Scan() and the loop body, or the end of the loop
ReplayStep ==
    /\ ~up /\ pos >= 1
    /\ IF pos <= Len(aof) /\ ScanOK(aof[pos])
       THEN /\ data' = ApplyLine(data, aof[pos], now)
            /\ pos' = pos + 1
            /\ last' = Step("SCAN", 1, NoCmd, <<>>, "ok")
            /\ UNCHANGED <<up, aofMu>>
       ELSE /\ up' = TRUE
            /\ pos' = 0
            /\ aofMu' = "none"
            /\ last' = Step("START", 1, NoCmd, <<>>, "ok")
            /\ UNCHANGED data
    /\ UNCHANGED <<aof, snap, now, open, setAt, gone, acked, clean, pc, cur, mu, acc, applied, tmp>>

NextReplay == ReplayStep

SpecReplay == InitReplay /\ [][NextReplay]_vars

(* ------- SpecConc: the handlers, the expiry worker and the locks ------- *)
\* sync.RWMutex.  Lock first takes the mutex of the writers, held until
\* Unlock, and announces the writer, which keeps new readers out; then it
\* waits for the readers inside to leave.  RLock waits while a writer is
\* inside or announced.
CanAnnounceBad(m) == TRUE
CanAnnounce(m) == m.w = "none" /\ m.p = "none"
CanLockBad(m) == TRUE
CanLock(m) == m.r = {}
CanRLockBad(m) == TRUE
CanRLock(m) == m.w = "none" /\ m.p = "none"

\* db.mu.Unlock() and db.mu.RUnlock() by task t
UnlockBad(m) == m
Unlock(m) == [m EXCEPT !.w = "none"]
RUnlock(m, t) == [m EXCEPT !.r = @ \ {t}]

\* what a read or a write of a Go map gives while another task writes it
sGarb == Str(<<0>>, 1)

\* task t is in the middle of a map access that overlaps a write, or
\* writes while another task is in the middle of an access
Raced(t) == \E u \in Tasks \ {t} : acc[u] # "none" /\ (acc[t] = "w" \/ acc[u] = "w")

\* the maps a write can leave: the one intended, or anything when it raced
Outcomes(t, d) == IF Raced(t) THEN {d, MapSet(d, sK1, Entry(sGarb, 0))} ELSE {d}
\* the results a read can give
GetOutcomes(t, g) == IF Raced(t) THEN {g, [ok |-> TRUE, v |-> sGarb]} ELSE {g}

ConcLines ==
    SetLines({sK1}, {sA, sB}, {NoPx})
    \cup {Cmd("GET", <<sK1>>, sNil, NoPx), Cmd("DEL", <<sK1>>, sNil, NoPx),
          Cmd("SAVE", <<>>, sNil, NoPx)}
ConcFiles == {<<>>, <<WholeLine(Rec("SET", sK1, TRUE, sA, -1))>>}

\* appends the commands in progress can still make
Pending == LET P(t) == IF pc[t] = "idle" THEN 0 ELSE Appends(cur[t].line)
           IN  P("c1") + P("c2")

\* main has called NewDB: the file is open, nothing else runs yet
InitConc ==
    /\ data = EmptyMap
    /\ aof \in ConcFiles
    /\ snap = SnapFile(TRUE, EmptyMap)
    /\ now = 1
    /\ up = FALSE
    /\ open = [c \in Conns |-> FALSE]
    /\ last = Step("INIT", "main", NoCmd, <<>>, "ok")
    /\ setAt = [k \in Keys |-> NoSet]
    /\ gone = {}
    /\ acked = [k \in Keys |-> NoAck]
    /\ clean = TRUE
    /\ pos = 0
    /\ pc = [t \in Tasks |-> IF t = "main" THEN "start" ELSE "idle"]
    /\ cur = [t \in Tasks |-> NoLocals]
    /\ mu = [w |-> "none", r |-> {}, p |-> "none"]
    /\ aofMu = "none"
    /\ acc = [t \in Tasks |-> "none"]
    /\ applied = <<>>
    /\ tmp = [t \in Tasks |-> EmptyMap]

hist == <<setAt, gone, acked, clean, open, pos>>

\* the record appendAOF makes of a mutation
RecordOf(cmd, key, hasValue, value, ttl) ==
    Rec(cmd, JsonString(key), hasValue, IF hasValue THEN JsonString(value) ELSE sNil, TtlMs(ttl))
\* the complete records of file f, in file order
RECURSIVE RecordsFrom(_, _)
RecordsFrom(f, i) ==
    IF i > Len(f) THEN <<>>
    ELSE (IF Parses(f[i]) THEN <<f[i].chunks[1].rec>> ELSE <<>>) \o RecordsFrom(f, i + 1)
Records(f) == RecordsFrom(f, 1)

\* the expiry worker and the handlers run once NewDB has replayed the log
\* (go db.expiryWorker() follows loadAOF, Accept follows NewDB)
Started(t) == up

\* loadAOF: db.aofMu is taken, the map is about to be filled
MReplayBegin ==
    /\ pc["main"] = "start" /\ aofMu = "none"
    /\ aofMu' = "main"
    /\ acc' = [acc EXCEPT !["main"] = "w"]
    /\ pc' = [pc EXCEPT !["main"] = "replay"]
    /\ UNCHANGED <<data, aof, snap, now, up, last, cur, mu, hist, applied, tmp>>

\* loadAOF returns, NewDB starts the expiry worker, main accepts connections
MReplayEnd ==
    /\ pc["main"] = "replay"
    /\ \E d \in Outcomes("main", LoadAOF(aof, now)) : data' = d
    /\ aofMu' = "none"
    /\ acc' = [acc EXCEPT !["main"] = "none"]
    /\ pc' = [pc EXCEPT !["main"] = "serving"]
    /\ up' = TRUE
    /\ last' = Step("START", "main", NoCmd, <<>>, "ok")
    /\ applied' = Records(aof)
    /\ UNCHANGED <<aof, snap, now, cur, mu, hist, tmp>>

\* handleConn: a line is read, its command is about to call the store
CBegin(t, line) ==
    /\ Started(t) /\ pc[t] = "idle"
    /\ NChunks(aof) + Pending + Appends(line) <= MaxLog
    /\ cur' = [cur EXCEPT ![t] = Locals(line, 1, 0, NoLocals.g, FALSE, 0)]
    /\ pc' = [pc EXCEPT ![t] = IF line.name \in {"SET", "DEL"} THEN "lock" ELSE "rlock"]
    /\ UNCHANGED <<data, aof, snap, now, up, last, mu, aofMu, acc, hist, applied, tmp>>

\* expiryWorker: the ticker fires, now := time.Now()
RTick ==
    /\ Started("reaper") /\ pc["reaper"] = "idle"
    /\ cur' = [cur EXCEPT !["reaper"] = Locals(NoCmd, 0, 0, NoLocals.g, FALSE, now)]
    /\ pc' = [pc EXCEPT !["reaper"] = "lock"]
    /\ UNCHANGED <<data, aof, snap, now, up, last, mu, aofMu, acc, hist, applied, tmp>>

\* db.mu.Lock(): the writer takes the mutex of the writers and announces itself
CAnnounce(t) ==
    /\ pc[t] = "lock" /\ CanAnnounce(mu)
    /\ mu' = [mu EXCEPT !.p = t]
    /\ pc' = [pc EXCEPT ![t] = "lockw"]
    /\ UNCHANGED <<data, aof, snap, now, up, last, cur, aofMu, acc, hist, applied, tmp>>

\* db.mu.Lock(): the readers have left, the writer holds the lock
CLock(t) ==
    /\ pc[t] = "lockw" /\ CanLock(mu)
    /\ mu' = [mu EXCEPT !.w = t, !.p = "none"]
    /\ pc' = [pc EXCEPT ![t] = "wbeg"]
    /\ UNCHANGED <<data, aof, snap, now, up, last, cur, aofMu, acc, hist, applied, tmp>>

\* the write of db.data begins (DB.Set line 60, DB.Del line 79, the sweep)
CWBegin(t) ==
    /\ pc[t] = "wbeg"
    /\ acc' = [acc EXCEPT ![t] = "w"]
    /\ pc' = [pc EXCEPT ![t] = "wend"]
    /\ UNCHANGED <<data, aof, snap, now, up, last, cur, mu, aofMu, hist, applied, tmp>>

\* the write of db.data ends
CWEnd(t) ==
    /\ pc[t] = "wend"
    /\ acc' = [acc EXCEPT ![t] = "none"]
    /\ LET c == cur[t].line
           k == c.keys[cur[t].i]
       IN  IF t = "reaper"
           THEN /\ \E d \in Outcomes(t, Sweep(data, cur[t].t)) : data' = d
                /\ pc' = [pc EXCEPT ![t] = "unlock"]
                /\ UNCHANGED <<cur, applied>>
           ELSE IF c.name = "SET"
           THEN /\ \E d \in Outcomes(t, MapSet(data, k, Entry(c.val, ExpiryOf(now, TtlOf(c.px))))) :
                      data' = d
                /\ pc' = [pc EXCEPT ![t] = "alock"]
                /\ applied' = Append(applied, RecordOf("SET", k, TRUE, c.val, TtlOf(c.px)))
                /\ UNCHANGED cur
           ELSE IF k \in DOMAIN data
           THEN /\ \E d \in Outcomes(t, MapDel(data, k)) : data' = d
                /\ cur' = [cur EXCEPT ![t].n = @ + 1]
                /\ pc' = [pc EXCEPT ![t] = "alock"]
                /\ applied' = Append(applied, RecordOf("DEL", k, FALSE, sNil, 0))
           ELSE /\ cur' = [cur EXCEPT ![t].i = @ + 1]
                /\ pc' = [pc EXCEPT ![t] = IF cur[t].i < Len(c.keys) THEN "wbeg" ELSE "unlock"]
                /\ UNCHANGED <<data, applied>>
    /\ UNCHANGED <<aof, snap, now, up, last, mu, aofMu, hist, tmp>>

\* appendAOF: db.aofMu.Lock()
CALock(t) ==
    /\ pc[t] = "alock" /\ aofMu = "none"
    /\ aofMu' = t
    /\ pc' = [pc EXCEPT ![t] = "awrite"]
    /\ UNCHANGED <<data, aof, snap, now, up, last, cur, mu, acc, hist, applied, tmp>>

\* appendAOF: Write, Sync, db.aofMu.Unlock()
CAWrite(t, out) ==
    /\ pc[t] = "awrite"
    /\ LET c == cur[t].line
           k == c.keys[cur[t].i]
           a == IF c.name = "SET"
                THEN AppendAOF(aof, "SET", k, TRUE, c.val, TtlOf(c.px), out, 1)
                ELSE AppendAOF(aof, "DEL", k, FALSE, sNil, 0, out, 1)
       IN  /\ aof' = a.file
           /\ IF c.name = "SET"
              THEN /\ cur' = [cur EXCEPT ![t].err = a.err]
                   /\ pc' = [pc EXCEPT ![t] = "unlock"]
              ELSE /\ cur' = [cur EXCEPT ![t].i = @ + 1]
                   /\ pc' = [pc EXCEPT ![t] = IF cur[t].i < Len(c.keys) THEN "wbeg" ELSE "unlock"]
    /\ aofMu' = "none"
    /\ UNCHANGED <<data, snap, now, up, last, mu, acc, hist, applied, tmp>>

\* db.mu.Unlock(); a handler then writes its reply
CUnlock(t) ==
    /\ pc[t] = "unlock"
    /\ mu' = Unlock(mu)
    /\ pc' = [pc EXCEPT ![t] = "idle"]
    /\ last' = IF t = "reaper" THEN Step("REAP", t, NoCmd, <<>>, "ok")
               ELSE IF cur[t].line.name = "SET"
               THEN Step("LINE", t, cur[t].line, IF cur[t].err THEN <<RErr>> ELSE <<ROk>>, "ok")
               ELSE Step("LINE", t, cur[t].line, <<RInt(cur[t].n)>>, "ok")
    /\ UNCHANGED <<data, aof, snap, now, up, cur, aofMu, acc, hist, applied, tmp>>

\* db.mu.RLock()
CRLock(t) ==
    /\ pc[t] = "rlock" /\ CanRLock(mu)
    /\ mu' = [mu EXCEPT !.r = @ \cup {t}]
    /\ pc' = [pc EXCEPT ![t] = "rbeg"]
    /\ UNCHANGED <<data, aof, snap, now, up, last, cur, aofMu, acc, hist, applied, tmp>>

\* the read of db.data begins (DB.Get line 67, SaveSnapshot's loop)
CRBegin(t) ==
    /\ pc[t] = "rbeg"
    /\ acc' = [acc EXCEPT ![t] = "r"]
    /\ pc' = [pc EXCEPT ![t] = "rend"]
    /\ UNCHANGED <<data, aof, snap, now, up, last, cur, mu, aofMu, hist, applied, tmp>>

\* the read of db.data ends: DB.Get has its result, SaveSnapshot its tmp map
CREnd(t) ==
    /\ pc[t] = "rend"
    /\ acc' = [acc EXCEPT ![t] = "none"]
    /\ IF cur[t].line.name = "GET"
       THEN /\ \E g \in GetOutcomes(t, Get(data, cur[t].line.keys[1], now)) :
                  cur' = [cur EXCEPT ![t].g = g]
            /\ pc' = [pc EXCEPT ![t] = "runlock"]
            /\ UNCHANGED tmp
       ELSE /\ \E d \in Outcomes(t, data) : tmp' = [tmp EXCEPT ![t] = Snapshot(d)]
            /\ pc' = [pc EXCEPT ![t] = "fopen"]
            /\ UNCHANGED cur
    /\ UNCHANGED <<data, aof, snap, now, up, last, mu, aofMu, hist, applied>>

\* os.WriteFile: the snapshot file is opened with O_TRUNC
CFOpen(t) ==
    /\ pc[t] = "fopen"
    /\ snap' = SnapFile(FALSE, EmptyMap)
    /\ pc' = [pc EXCEPT ![t] = "fwrite"]
    /\ UNCHANGED <<data, aof, now, up, last, cur, mu, aofMu, acc, hist, applied, tmp>>

\* os.WriteFile: the JSON text of tmp is written from the start of the file
CFWrite(t) ==
    /\ pc[t] = "fwrite"
    /\ snap' = SnapFile(TRUE, tmp[t])
    /\ pc' = [pc EXCEPT ![t] = "runlock"]
    /\ UNCHANGED <<data, aof, now, up, last, cur, mu, aofMu, acc, hist, applied, tmp>>

\* db.mu.RUnlock(); the handler writes its reply
CRUnlock(t) ==
    /\ pc[t] = "runlock"
    /\ mu' = RUnlock(mu, t)
    /\ pc' = [pc EXCEPT ![t] = "idle"]
    /\ last' = IF cur[t].line.name = "GET"
               THEN Step("LINE", t, cur[t].line,
                         IF cur[t].g.ok THEN <<RBulk(cur[t].g.v)>> ELSE <<RNil>>, "ok")
               ELSE Step("LINE", t, cur[t].line, <<ROk>>, "ok")
    /\ UNCHANGED <<data, aof, snap, now, up, cur, aofMu, acc, hist, applied, tmp>>

Writers == Handlers \cup {"reaper"}

NextConc ==
    \/ MReplayBegin
    \/ MReplayEnd
    \/ \E t \in Handlers, line \in ConcLines : CBegin(t, line)
    \/ RTick
    \/ \E t \in Writers : CAnnounce(t)
    \/ \E t \in Writers : CLock(t)
    \/ \E t \in Writers : CWBegin(t)
    \/ \E t \in Writers : CWEnd(t)
    \/ \E t \in Handlers : CALock(t)
    \/ \E t \in Handlers : CAWrite(t, "ok")
    \/ \E t \in Writers : CUnlock(t)
    \/ \E t \in Handlers : CRLock(t)
    \/ \E t \in Handlers : CRBegin(t)
    \/ \E t \in Handlers : CREnd(t)
    \/ \E t \in Handlers : CFOpen(t)
    \/ \E t \in Handlers : CFWrite(t)
    \/ \E t \in Handlers : CRUnlock(t)

SpecConc == InitConc /\ [][NextConc]_vars

\* scheduling: a task that can take a step is not held back for ever;
\* sync.RWMutex and sync.Mutex hand the lock to a task that waits for it
\* (a waiting Lock keeps new readers out, waiting readers enter when the
\* writer unlocks, a starving waiter is handed the mutex), and the file
\* operations return.  Clients need not send commands: CBegin is not fair.
FairConc ==
    /\ WF_vars(MReplayBegin) /\ WF_vars(MReplayEnd)
    /\ WF_vars(RTick)
    /\ \A t \in Writers :
          /\ SF_vars(CAnnounce(t)) /\ WF_vars(CLock(t)) /\ WF_vars(CWBegin(t))
          /\ WF_vars(CWEnd(t)) /\ WF_vars(CUnlock(t))
    /\ \A t \in Handlers :
          /\ SF_vars(CALock(t)) /\ WF_vars(CAWrite(t, "ok"))
          /\ SF_vars(CRLock(t)) /\ WF_vars(CRBegin(t)) /\ WF_vars(CREnd(t))
          /\ WF_vars(CFOpen(t)) /\ WF_vars(CFWrite(t)) /\ WF_vars(CRUnlock(t))

\* a small instance of the above for the liveness check: the tasks are the
\* same, one client sends SET and SAVE, the other GET and DEL
LiveLines(t) ==
    IF t = "c1"
    THEN SetLines({sK1}, {sA}, {NoPx}) \cup {Cmd("SAVE", <<>>, sNil, NoPx)}
    ELSE {Cmd("GET", <<sK1>>, sNil, NoPx), Cmd("DEL", <<sK1>>, sNil, NoPx)}

NextLive ==
    \/ MReplayBegin
    \/ MReplayEnd
    \/ \E t \in Handlers : \E line \in LiveLines(t) : CBegin(t, line)
    \/ RTick
    \/ \E t \in Writers : CAnnounce(t)
    \/ \E t \in Writers : CLock(t)
    \/ \E t \in Writers : CWBegin(t)
    \/ \E t \in Writers : CWEnd(t)
    \/ \E t \in Handlers : CALock(t)
    \/ \E t \in Handlers : CAWrite(t, "ok")
    \/ \E t \in Writers : CUnlock(t)
    \/ \E t \in Handlers : CRLock(t)
    \/ \E t \in Handlers : CRBegin(t)
    \/ \E t \in Handlers : CREnd(t)
    \/ \E t \in Handlers : CFOpen(t)
    \/ \E t \in Handlers : CFWrite(t)
    \/ \E t \in Handlers : CRUnlock(t)

SpecLive == InitConc /\ [][NextLive]_vars /\ FairConc

(* ------ SpecReap: the expiry worker waits for the lock while time passes ------ *)
ReapLines ==
    SetLines({sK1}, {sA}, {Px(1)}) \cup SetLines({sK2}, {sA}, {Px(Millisecond), NoPx})
    \cup {Cmd("GET", <<sK1>>, sNil, NoPx)}

\* time passes, also between the worker's time.Now() and its db.mu.Lock()
TickReap ==
    /\ now <= MaxTime
    /\ now' = now + 1
    /\ UNCHANGED <<data, aof, snap, up, open, last, setAt, gone, acked, clean>>
    /\ UNCHANGED steps

NextReap ==
    \/ \E line \in ReapLines : CBegin("c1", line)
    \/ RTick
    \/ TickReap
    \/ \E t \in {"c1", "reaper"} : CAnnounce(t)
    \/ \E t \in {"c1", "reaper"} : CLock(t)
    \/ \E t \in {"c1", "reaper"} : CWBegin(t)
    \/ \E t \in {"c1", "reaper"} : CWEnd(t)
    \/ CALock("c1")
    \/ CAWrite("c1", "ok")
    \/ \E t \in {"c1", "reaper"} : CUnlock(t)
    \/ CRLock("c1")
    \/ CRBegin("c1")
    \/ CREnd("c1")
    \/ CRUnlock("c1")

SpecReap == InitServing /\ [][NextReap]_vars

(* --- SpecLog: every kind of step, and what it does to the log file --- *)
LogLines ==
    SetLines({sK1}, {sA}, {NoPx})
    \cup {Cmd("GET", <<sK1>>, sNil, NoPx), Cmd("DEL", <<sK1>>, sNil, NoPx),
          Cmd("DEL", <<sK2, sK1>>, sNil, NoPx), Cmd("PING", <<>>, sNil, NoPx),
          Cmd("SAVE", <<>>, sNil, NoPx), Cmd("FOO", <<>>, sNil, NoPx),
          Cmd("SET", <<>>, sNil, NoPx)}

NextLog ==
    \/ \E c \in Conns, line \in LogLines :
          \E out \in Fates(line, Outs) : Serve(c, line, out, IF out = "werr" THEN 1 ELSE 0)
    \/ Reap
    \/ Crash
    \/ Start

SpecLog == InitServing /\ [][NextLog]_vars

(* ------ SpecRestart: keys with a TTL, a crash and the replay ------ *)
RestartLines ==
    SetLines({sK1}, {sA}, {Px(1), Px(Millisecond)}) \cup SetLines({sK1}, {sB}, {NoPx})
    \cup {Cmd("GET", <<sK1>>, sNil, NoPx), Cmd("DEL", <<sK1>>, sNil, NoPx)}

NextRestart ==
    \/ \E c \in Conns, line \in RestartLines : Serve(c, line, "ok", 0)
    \/ Tick
    \/ Crash
    \/ Start

SpecRestart == InitServing /\ [][NextRestart]_vars

(* ======================= claims of the specification =================== *)
IsLine(st, name) == st.op = "LINE" /\ st.cmd.name = name /\ Len(st.cmd.keys) >= 1

\* C1 (as stated): a GET of a key whose last Set had a ttl > 0 replies nil
\* at every time t >= t0 + ttl, the instant t0 + ttl included
C1_Original ==
    (IsLine(last, "GET") /\ Len(last.cmd.keys) = 1) =>
        LET s == setAt[last.cmd.keys[1]]
        IN  (s.ttl > 0 /\ now >= s.t0 + s.ttl) => last.rep = <<RNil>>

\* C1 (amended): a GET of a key whose last Set had a ttl > 0 replies nil at
\* every time t > t0 + ttl, whether or not the expiry worker has run
C1_Amended ==
    (IsLine(last, "GET") /\ Len(last.cmd.keys) = 1) =>
        LET s == setAt[last.cmd.keys[1]]
        IN  (s.ttl > 0 /\ now > s.t0 + s.ttl) => last.rep = <<RNil>>

C1_Witness ==
    /\ IsLine(last, "GET") /\ Len(last.cmd.keys) = 1
    /\ setAt[last.cmd.keys[1]].ttl > 0
    /\ now > setAt[last.cmd.keys[1]].t0 + setAt[last.cmd.keys[1]].ttl
    /\ last.cmd.keys[1] \in DOMAIN data
    /\ last.rep = <<RNil>>

AllKeys(c, S) == \A i \in 1..Len(c.keys) : c.keys[i] \in S

\* C5: a DEL whose keys are all absent from the map replies 0 and changes
\* neither the map nor the log; a DEL whose keys were all removed by an
\* earlier DEL and not set since replies 0
C5_IdempotentDelete ==
    [][ IsLine(last', "DEL") =>
          /\ AllKeys(last'.cmd, Keys \ DOMAIN data) =>
                (last'.rep = <<RInt(0)>> /\ data' = data /\ aof' = aof)
          /\ AllKeys(last'.cmd, gone) => last'.rep = <<RInt(0)>> ]_vars

C5_Witness ==
    /\ IsLine(last, "DEL")
    /\ AllKeys(last.cmd, gone)
    /\ last.rep = <<RInt(0)>>
    /\ aof # <<>>

\* C6 (as stated): every line read, a blank one included, is answered by
\* exactly one reply, no reply closes the connection, and a connection is
\* closed only when the read fails
C6_Original ==
    [][ /\ last'.op = "LINE" => (Len(last'.rep) = 1 /\ open' = open)
        /\ \A c \in Conns : (open[c] /\ ~open'[c]) => (last'.op = "READERR" /\ last'.conn = c) ]_vars

\* C6 (amended): every line that holds a token is answered by exactly one
\* reply and a blank line by none; no reply closes the connection, and a
\* connection is closed only when the read fails
C6_Amended ==
    [][ /\ last'.op = "LINE" =>
              (Len(last'.rep) = (IF last'.cmd.name = "" THEN 0 ELSE 1) /\ open' = open)
        /\ \A c \in Conns : (open[c] /\ ~open'[c]) => (last'.op = "READERR" /\ last'.conn = c) ]_vars

C6_Witness ==
    /\ last.op = "LINE" /\ last.cmd.name = "FOO"
    /\ last.rep = <<RErr>>
    /\ open[last.conn]

\* an appendAOF made while serving line st.cmd from map d returned an error
AppendFailed(st, d) ==
    /\ st.out # "ok"
    /\ \/ st.cmd.name = "SET"
       \/ st.cmd.name = "DEL" /\ \E i \in 1..Len(st.cmd.keys) : st.cmd.keys[i] \in DOMAIN d

\* C7: a SET or a DEL during which an append to the log failed is answered
\* by an error reply
C7_ErrorsSurfaced ==
    [][ ((IsLine(last', "SET") \/ IsLine(last', "DEL")) /\ AppendFailed(last', data)) =>
           (Len(last'.rep) = 1 /\ IsError(last'.rep[1])) ]_vars

\* the log gained a complete record: its last line ends with a whole
\* record and a newline
NewRecord(f, g) ==
    /\ g # f /\ g # <<>>
    /\ g[Len(g)].nl
    /\ Whole(g[Len(g)].chunks[Len(g[Len(g)].chunks)])

\* a SET answered by an error leaves the requested entry in the map, found
\* by Get, and leaves every other key as it was
NoRollback(st, d, d2, t) ==
    LET k == st.cmd.keys[1]
        ttl == TtlOf(st.cmd.px)
    IN  /\ k \in DOMAIN d2
        /\ d2[k] = Entry(st.cmd.val, IF ttl > 0 THEN t + ttl ELSE 0)
        /\ Get(d2, k, t) = [ok |-> TRUE, v |-> st.cmd.val]
        /\ \A j \in Keys \ {k} :
              /\ j \in DOMAIN d <=> j \in DOMAIN d2
              /\ j \in DOMAIN d => d2[j] = d[j]

\* C8 (as stated): after a SET answered by an error the map holds the new
\* entry, no other key changed, and the log has no complete record of it
C8_Original ==
    [][ (IsLine(last', "SET") /\ last'.rep = <<RErr>>) =>
           (NoRollback(last', data, data', now) /\ ~NewRecord(aof, aof')) ]_vars

\* C8 (amended): after a SET answered by an error the map holds the new
\* entry and no other key changed; the log has no complete record of it
\* when the write failed, and a complete record when only the sync failed
C8_Amended ==
    [][ (IsLine(last', "SET") /\ last'.rep = <<RErr>>) =>
           /\ NoRollback(last', data, data', now)
           /\ last'.out = "werr" => ~NewRecord(aof, aof')
           /\ last'.out = "serr" => NewRecord(aof, aof') ]_vars

C8_Witness ==
    /\ IsLine(last, "SET") /\ last.rep = <<RErr>> /\ last.out = "werr"
    /\ last.cmd.keys[1] \in DOMAIN data
    /\ data[last.cmd.keys[1]].Value = last.cmd.val
    /\ aof # <<>> /\ ~aof[Len(aof)].nl

\* what a client can read of a map: its keys and their values
KV(d) == [k \in DOMAIN d |-> d[k].Value]

\* C2: while every key and value was valid UTF-8 text and every append
\* succeeded, replaying the log into an empty map gives the keys and values
\* of the map of the running process
C2_RoundTrip == (up /\ clean) => KV(LoadAOF(aof, now)) = KV(data)

\* C3: a SET of valid text answered +OK, with no later SET or DEL of its
\* key, is what GET returns in every running process, before and after any
\* crash and restart (log lines that exceed the scanner's limit set aside)
C3_Durable ==
    \A k \in Keys :
        (up /\ acked[k].has /\ ValidUTF8(acked[k].v) /\ \A i \in 1..Len(aof) : ScanOK(aof[i]))
            => Get(data, k, now) = [ok |-> TRUE, v |-> acked[k].v]

\* the map made by the records of f that parse and fit the scanner, each
\* applied in file order
RECURSIVE WellFormedFrom(_, _, _, _)
WellFormedFrom(f, i, d, t) ==
    IF i > Len(f) THEN d
    ELSE WellFormedFrom(f, i + 1, IF Parses(f[i]) /\ ScanOK(f[i]) THEN ApplyRec(d, f[i].chunks[1].rec, t) ELSE d, t)

\* C10: when the replay ends, the map is the result of applying, in file
\* order, every well-formed record of the file, those after an unparsable
\* or over-long line included
C10_ReplayAll == (last.op = "START") => data = WellFormedFrom(aof, 1, EmptyMap, now)

IdleAfterSet(t) == pc[t] = "idle" /\ cur[t].line.name = "SET"
\* the values clients write
Written == {sA, sB}

\* C4: once two handlers have each returned from a SET of the same key,
\* the map holds one of the two values written; a GET returns nothing or a
\* value some SET wrote, never anything else
C4_Serialized ==
    /\ (IdleAfterSet("c1") /\ IdleAfterSet("c2")) =>
          /\ sK1 \in DOMAIN data
          /\ data[sK1].Value \in {cur["c1"].line.val, cur["c2"].line.val}
    /\ \A t \in Handlers : cur[t].g.ok => cur[t].g.v \in Written

C4_Witness ==
    /\ IdleAfterSet("c1") /\ IdleAfterSet("c2")
    /\ cur["c1"].line.val = sA /\ cur["c2"].line.val = sB
    /\ data[sK1].Value = sA
    /\ Len(aof) = 2 /\ aof[2].chunks[1].rec.value = sA

\* C9: while a task writes the map (a Set, a Del, a sweep, the startup
\* replay), no other task reads or writes it
C9_LockDiscipline ==
    \A t \in Tasks : acc[t] = "w" => \A u \in Tasks \ {t} : acc[u] = "none"

C9_Witness ==
    /\ acc["c1"] = "w"
    /\ pc["c2"] = "rlock"
    /\ pc["reaper"] = "lock"

\* C9: several readers are in the map at the same time
C9_ReadersOverlap == acc["c1"] = "r" /\ acc["c2"] = "r"

\* C11: after a SAVE answered +OK, the file holds expiresAt = 0 for every
\* entry without expiry and the expiry time for every entry that has one
C11_ExpiryEncoding ==
    [][ (last'.op = "LINE" /\ last'.cmd.name = "SAVE" /\ last'.rep = <<ROk>>) =>
           /\ snap'.whole
           /\ DOMAIN snap'.m = DOMAIN data
           /\ \A k \in DOMAIN data : snap'.m[k].expiresAt = data[k].ExpiresAt ]_vars

\* the keys named by the arguments of command c
ArgKeys(c) == {c.keys[i] : i \in 1..Len(c.keys)}
\* the records of g after those of f
NewRecords(f, g) == SubSeq(Records(g), Len(Records(f)) + 1, Len(Records(g)))

\* C12: a DEL replies the number of distinct keys among its arguments that
\* the map held when it started, the log gains exactly one DEL record for
\* each of them, and the same DEL right after it replies 0
C12_CountOnce ==
    [][ IsLine(last', "DEL") =>
          LET hit == ArgKeys(last'.cmd) \cap DOMAIN data
              new == NewRecords(aof, aof')
          IN  /\ last'.rep = <<RInt(Cardinality(hit))>>
              /\ Len(new) = Cardinality(hit)
              /\ {new[i].key : i \in 1..Len(new)} = hit
              /\ \A i \in 1..Len(new) : new[i].cmd = "DEL"
              /\ (IsLine(last, "DEL") /\ last.cmd = last'.cmd) => last'.rep = <<RInt(0)>> ]_vars

\* the part of C12 that does not depend on the append: the count replied
C12_CountOnly ==
    [][ IsLine(last', "DEL") =>
          /\ last'.rep = <<RInt(Cardinality(ArgKeys(last'.cmd) \cap DOMAIN data))>>
          /\ (IsLine(last, "DEL") /\ last.cmd = last'.cmd) => last'.rep = <<RInt(0)>> ]_vars

IsPrefix(a, b) == Len(a) <= Len(b) /\ SubSeq(b, 1, Len(a)) = a

\* C13: the records of the log are the mutations made to the map, in the
\* order they were made, the last mutation being at most one record ahead
\* of the log while its task still holds the store lock; whenever no task
\* holds the store lock for writing, replaying the log gives the keys and
\* values of the map
C13_LogOrder ==
    up => /\ IsPrefix(Records(aof), applied)
          /\ Len(applied) <= Len(Records(aof)) + 1
          /\ mu.w = "none" =>
                /\ Records(aof) = applied
                /\ KV(LoadAOF(aof, now)) = KV(data)

C13_Witness ==
    /\ pc["c1"] = "lock" /\ cur["c1"].line.name = "DEL"
    /\ pc["c2"] = "alock" /\ cur["c2"].line.val = sB
    /\ Len(applied) = 1 /\ Records(aof) = <<>>
    /\ applied[1].value = sB

\* the expiry worker ends its sweep in this step
SweepDone == pc["reaper"] = "wend" /\ pc'["reaper"] = "unlock"

\* C14: a sweep of the expiry worker, with t the time it took before it
\* waited for the lock, leaves no entry whose expiry is earlier than t,
\* leaves in place and unchanged every entry without expiry or whose expiry
\* is not earlier than t, adds nothing, and removes no entry that a Get at
\* the moment of the sweep would return
C14_SweepExact ==
    [][ SweepDone =>
          LET t == cur["reaper"].t
          IN  /\ DOMAIN data' \subseteq DOMAIN data
              /\ \A k \in DOMAIN data' : ~(data'[k].ExpiresAt # 0 /\ data'[k].ExpiresAt < t)
              /\ \A k \in DOMAIN data :
                    (data[k].ExpiresAt = 0 \/ data[k].ExpiresAt >= t) =>
                        (k \in DOMAIN data' /\ data'[k] = data[k])
              /\ \A k \in DOMAIN data \ DOMAIN data' : ~Get(data, k, now).ok ]_vars

C14_Witness ==
    /\ pc["reaper"] = "unlock"
    /\ cur["reaper"].t < now
    /\ sK1 \notin DOMAIN data
    /\ \E i \in 1..Len(applied) : applied[i].key = sK1
    /\ sK2 \in DOMAIN data /\ data[sK2].ExpiresAt = cur["reaper"].t

\* the content of a file as one sequence: the chunks written, and a mark
\* for each newline
NlMark == Chunk(Rec("", sNil, FALSE, sNil, -1), -1)
RECURSIVE FlatFrom(_, _)
FlatFrom(f, i) ==
    IF i > Len(f) THEN <<>>
    ELSE f[i].chunks \o (IF f[i].nl THEN <<NlMark>> ELSE <<>>) \o FlatFrom(f, i + 1)
Flat(f) == FlatFrom(f, 1)
\* what file g holds after the content of file f
Added(f, g) == SubSeq(Flat(g), Len(Flat(f)) + 1, Len(Flat(g)))
\* s is n writes: each a whole record of command cmd and a newline when
\* the writes succeed, each a part of such a record when they fail
WritesOf(w, cmd, ks, n, failed) ==
    IF failed
    THEN /\ Len(w) = n
         /\ \A i \in 1..n : w[i] # NlMark /\ ~Whole(w[i]) /\ w[i].rec.cmd = cmd /\ w[i].rec.key \in ks
    ELSE /\ Len(w) = 2 * n
         /\ \A i \in 1..n :
               /\ Whole(w[2 * i - 1]) /\ w[2 * i - 1].rec.cmd = cmd /\ w[2 * i - 1].rec.key \in ks
               /\ w[2 * i] = NlMark
         /\ Cardinality({w[2 * i - 1].rec.key : i \in 1..n}) = IF cmd = "DEL" THEN n ELSE 1

\* C15 (as stated): the log only grows at its end; a SET appends exactly
\* one SET record, a DEL exactly one DEL record for each key it removed, and
\* every other step (GET, PING, SAVE, a DEL of absent keys, a rejected
\* command, a sweep, a crash, the startup replay) leaves the log as it is
C15_Original ==
    [][ /\ IsPrefix(Flat(aof), Flat(aof'))
        /\ IF IsLine(last', "SET")
           THEN WritesOf(Added(aof, aof'), "SET", {last'.cmd.keys[1]}, 1, FALSE)
           ELSE IF IsLine(last', "DEL")
           THEN LET hit == ArgKeys(last'.cmd) \cap DOMAIN data
                IN  WritesOf(Added(aof, aof'), "DEL", hit, Cardinality(hit), FALSE)
           ELSE aof' = aof ]_vars

\* C15 (amended): the log only grows at its end; a SET makes one write of a
\* SET record, a DEL one write of a DEL record for each key it removed: the
\* whole record and its newline when the write succeeds, a part of the
\* record when the write fails; every other step leaves the log as it is
C15_Amended ==
    [][ /\ IsPrefix(Flat(aof), Flat(aof'))
        /\ IF IsLine(last', "SET")
           THEN WritesOf(Added(aof, aof'), "SET", {last'.cmd.keys[1]}, 1, last'.out = "werr")
           ELSE IF IsLine(last', "DEL")
           THEN LET hit == ArgKeys(last'.cmd) \cap DOMAIN data
                IN  WritesOf(Added(aof, aof'), "DEL", hit, Cardinality(hit), last'.out = "werr")
           ELSE aof' = aof ]_vars

C15_Witness ==
    /\ last.op = "START"
    /\ Len(aof) = 1 /\ aof[1].nl
    /\ Len(aof[1].chunks) = 2
    /\ ~Whole(aof[1].chunks[1]) /\ Whole(aof[1].chunks[2])

\* C16: after a restart, every key whose last live SET had a ttl > 0 and
\* that was not deleted since is in the map with an expiry
C16_TTLSurvives ==
    [][ last'.op = "START" =>
          \A k \in Keys : (setAt[k].ttl > 0 /\ k \notin gone) =>
              (k \in DOMAIN data' /\ data'[k].ExpiresAt # 0) ]_vars

\* the last SET record of key k among the records rs, or none
RECURSIVE LastSetFrom(_, _, _)
LastSetFrom(rs, k, i) ==
    IF i = 0 THEN <<>>
    ELSE IF rs[i].key = k /\ rs[i].cmd = "SET" THEN <<rs[i]>>
    ELSE LastSetFrom(rs, k, i - 1)
LastSet(rs, k) == LastSetFrom(rs, k, Len(rs))

\* C17: a SET leaves for its key the entry of its value and of its expiry
\* (now + ttl when ttl > 0, none otherwise), whatever the key held, and no
\* other key changes; after a replay each key holds the entry of the last
\* SET record of the key alone (its value, and replay time + ttl_ms when
\* ttl_ms > 0, no expiry otherwise)
C17_WholeEntry ==
    [][ /\ IsLine(last', "SET") =>
              LET k == last'.cmd.keys[1]
              IN  /\ k \in DOMAIN data'
                  /\ data'[k] = Entry(last'.cmd.val,
                                      IF TtlOf(last'.cmd.px) > 0 THEN now + TtlOf(last'.cmd.px) ELSE 0)
                  /\ \A j \in Keys \ {k} :
                        /\ j \in DOMAIN data' <=> j \in DOMAIN data
                        /\ j \in DOMAIN data => data'[j] = data[j]
        /\ last'.op = "START" =>
              \A k \in DOMAIN data' :
                  LET r == LastSet(Records(aof), k)
                  IN  /\ r # <<>>
                      /\ data'[k] = Entry(r[1].value,
                                          IF r[1].ttl_ms > 0 THEN now + r[1].ttl_ms * Millisecond ELSE 0) ]_vars

C17_Witness ==
    /\ last.op = "START"
    /\ Len(Records(aof)) = 2
    /\ Records(aof)[1].ttl_ms = 1 /\ Records(aof)[2].ttl_ms = -1
    /\ sK1 \in DOMAIN data /\ data[sK1] = Entry(sB, 0)

\* the keys among the arguments of c that a Get on map d at time t finds
Found(c, d, t) == {k \in ArgKeys(c) : Get(d, k, t).ok}

\* C19: a DEL counts, and logs a DEL record for, only keys that a GET just
\* before it would have found
C19_DelAgreesWithGet ==
    [][ IsLine(last', "DEL") =>
          LET new == NewRecords(aof, aof')
          IN  /\ last'.rep = <<RInt(Cardinality(Found(last'.cmd, data, now)))>>
              /\ {new[i].key : i \in 1..Len(new)} \subseteq Found(last'.cmd, data, now) ]_vars

\* what the snapshot file of map d holds by the file format: for each key
\* its value and its expiry, 0 for none
Export(d) == [k \in DOMAIN d |-> [value |-> d[k].Value, expiresAt |-> d[k].ExpiresAt]]
\* task t is inside SaveSnapshot, holding the store lock for reading
InSave(t) == cur[t].line.name = "SAVE" /\ pc[t] \in {"rbeg", "rend", "fopen", "fwrite", "runlock"}
\* task t returns from SaveSnapshot and replies +OK in this step
SaveReplies(t) == cur[t].line.name = "SAVE" /\ pc[t] = "runlock" /\ pc'[t] = "idle"

\* C18: while a SAVE is inside SaveSnapshot neither the map nor the log
\* changes, and when it replies +OK the snapshot file holds, for every
\* key of the map, its value and its expiry
C18_ConsistentExport ==
    [][ \A t \in Handlers :
          /\ InSave(t) => (data' = data /\ aof' = aof)
          /\ SaveReplies(t) => (snap.whole /\ snap.m = Export(data)) ]_vars

\* the part of C18 about the map and the log: no step changes them while
\* a SAVE is inside SaveSnapshot, and the map written is the map of that time
C18_ReadOnly ==
    [][ \A t \in Handlers :
          /\ InSave(t) => (data' = data /\ aof' = aof)
          /\ (pc[t] = "fwrite" /\ pc'[t] = "runlock") => snap'.m = Snapshot(data) ]_vars

\* the part of C18 about the file: it is complete when the SAVE replies +OK
C18_FileWhole ==
    [][ \A t \in Handlers : SaveReplies(t) => snap.whole ]_vars

\* task t waits for a lock it cannot take now
Blocked(t) ==
    \/ pc[t] = "lock" /\ ~CanAnnounce(mu)
    \/ pc[t] = "lockw" /\ ~CanLock(mu)
    \/ pc[t] = "rlock" /\ ~CanRLock(mu)
    \/ pc[t] \in {"alock", "start"} /\ aofMu # "none"
\* task t is inside a command, a sweep or the replay
Busy(t) == pc[t] \notin {"idle", "serving"}

\* the log lock is taken by a handler only while it holds the store lock
\* for writing, and no task waits for the store lock while it holds the
\* log lock
LockOrder ==
    \A t \in Tasks :
        /\ (aofMu = t /\ t \in Handlers) => mu.w = t
        /\ (pc[t] = "alock") => mu.w = t
        /\ (aofMu = t) => pc[t] \notin {"lock", "lockw", "rlock"}
\* when tasks are inside an operation, one of them can take a step
NoDeadlock == (\E t \in Tasks : Busy(t)) => (\E t \in Tasks : Busy(t) /\ ~Blocked(t))

\* C20: the store lock is taken before the log lock, never the reverse;
\* in no state is every task blocked on a lock; under fair scheduling
\* every command, sweep and replay that started releases its locks and
\* ends (the handler sends its reply and is ready for the next line)
C20_NoDeadlock ==
    /\ [](LockOrder /\ NoDeadlock)
    /\ \A t \in Tasks : Busy(t) ~> (~Busy(t) /\ mu.w # t /\ t \notin mu.r /\ aofMu # t)

C20_Witness ==
    /\ pc["c1"] = "awrite" /\ aofMu = "c1" /\ mu.w = "c1"
    /\ pc["c2"] = "lock"
    /\ pc["reaper"] = "lock"

====
